---- MODULE Spec2Model ----
(***************************************************************************)
(* The ELD log-sheet renderer of frontend/src/components/LogSheets.js.     *)
(*                                                                         *)
(* LogSheets maps a sequence of DailyLog objects to one LogSheet each; a   *)
(* LogSheet renders a header and a summary (JSX) and, in its effect,       *)
(* clears its canvas and runs drawLogSheet on it.  A canvas is modelled by *)
(* its 2D context: the current styles, the current path, and the list of   *)
(* primitives painted since the surface was last cleared.                  *)
(*                                                                         *)
(* Numbers.  Every y coordinate of the program is an integer.  x           *)
(* coordinates are x0 + (t/24)*w with t = hours + minutes/60, so they are  *)
(* held exactly, as integers in units of 1/(24*60) of a canvas unit        *)
(* (PX(n) is n canvas units); a fractional hour is held in units of 1/60.  *)
(* A number that can be NaN is a record [nan, v].  Recap numbers and miles *)
(* are held in hundredths.  A JS object is a function from its property    *)
(* names; an absent property (undefined) is a name outside its DOMAIN.     *)
(*                                                                         *)
(* Three specifications.  Spec is one mount of LogSheets with given logs.  *)
(* SpecRerender adds new logs given to the mounted tree.  SpecApp is       *)
(* frontend/src/App.js: handleTripSubmit and the LogSheets it renders from *)
(* tripData.eld_logs.                                                      *)
(***************************************************************************)
EXTENDS Integers, Sequences, FiniteSets, TLC

VARIABLES props, phase, dom, canvas, effectIdx, crashed, prev,
          loading, error, tripData, tripLocations, inflight, outcome

(* the state of App: its four useState cells, the invocations of       *)
(* handleTripSubmit that have not settled, and how the last one ended  *)
appVars == <<loading, error, tripData, tripLocations, inflight, outcome>>

vars == <<props, phase, dom, canvas, effectIdx, crashed, prev, appVars>>

-----------------------------------------------------------------------------
(* Bounds of the model *)

MaxActs == 2

MaxDays == 2

-----------------------------------------------------------------------------
(* Layout constants *)

CanvasWidth == 1000

CanvasHeight == 1400

margin == 40

timelineY == 250

timelineHeight == 300

statusRowHeight == 50

Sub == 24 * 60

PX(n) == n * Sub

-----------------------------------------------------------------------------
(* JS numbers and strings as far as parseTime needs them *)

Num(n) == [nan |-> FALSE, v |-> n]

NaN == [nan |-> TRUE, v |-> 0]

Digits == <<"0", "1", "2", "3", "4", "5", "6", "7", "8", "9">>

IsDigit(c) == \E d \in 1..10 : Digits[d] = c

DigitVal(c) == (CHOOSE d \in 1..10 : Digits[d] = c) - 1

RECURSIVE DecVal(_)
DecVal(s) ==
  IF s = <<>> THEN 0
  ELSE 10 * DecVal(SubSeq(s, 1, Len(s) - 1)) + DigitVal(s[Len(s)])

(* Number(str) for a string of decimal digits and letters: "" is 0, a run *)
(* of digits is its decimal value, anything else is NaN.                  *)
Number(s) ==
  IF \A i \in 1..Len(s) : IsDigit(s[i]) THEN Num(DecVal(s)) ELSE NaN

(* timeStr.split(':') *)
RECURSIVE split(_)
split(s) ==
  IF \A i \in 1..Len(s) : s[i] # ":" THEN <<s>>
  ELSE LET k == CHOOSE i \in 1..Len(s) :
                   /\ s[i] = ":"
                   /\ \A j \in 1..(i - 1) : s[j] # ":"
       IN <<SubSeq(s, 1, k - 1)>> \o split(SubSeq(s, k + 1, Len(s)))

(* parseTime reading HH:MM as a decimal number: hours + minutes / 100 *)
parseTimeDecimal(obj, key) ==
  IF key \notin DOMAIN obj THEN [threw |-> TRUE, val |-> NaN]
  ELSE LET parts == split(obj[key])
           hours == Number(parts[1])
           minutes == IF Len(parts) >= 2 THEN Number(parts[2]) ELSE NaN
       IN [threw |-> FALSE,
           val |-> IF hours.nan \/ minutes.nan THEN NaN
                   ELSE Num(hours.v * 60 + (minutes.v * 60) \div 100)]

(* parseTime(obj[key]): [threw, val]; val is the fractional hour in 1/60.  *)
(* An undefined timeStr has no split method: TypeError.  A missing second  *)
(* part destructures to undefined, and undefined / 60 is NaN.              *)
parseTime(obj, key) ==
  IF key \notin DOMAIN obj THEN [threw |-> TRUE, val |-> NaN]
  ELSE LET parts == split(obj[key])
           hours == Number(parts[1])
           minutes == IF Len(parts) >= 2 THEN Number(parts[2]) ELSE NaN
       IN [threw |-> FALSE,
           val |-> IF hours.nan \/ minutes.nan THEN NaN
                   ELSE Num(hours.v * 60 + minutes.v)]

Pad2(n) == IF n < 10 THEN "0" \o ToString(n) ELSE ToString(n)

(* value.toFixed(2) of a non-negative number held in hundredths *)
toFixed(v) == ToString(v \div 100) \o "." \o Pad2(v % 100)

(* new Date(value).toLocaleDateString(), en-US; an undefined or unparsable *)
(* value gives "Invalid Date" and does not throw.                          *)
toLocaleDateString(obj) ==
  IF "date" \notin DOMAIN obj THEN "Invalid Date"
  ELSE CASE obj.date = "2024-03-01" -> "3/1/2024"
         [] obj.date = "2024-03-02" -> "3/2/2024"
         [] OTHER -> "Invalid Date"

(* `${obj.key}` *)
Interp(obj, key) == IF key \in DOMAIN obj THEN obj[key] ELSE "undefined"

-----------------------------------------------------------------------------
(* The 2D context *)

NewContext ==
  [calls |-> <<>>, path |-> <<>>, fillStyle |-> "#000", strokeStyle |-> "#000",
   lineWidth |-> 1, font |-> "10px sans-serif", threw |-> FALSE]

Throw(ctx) == [ctx EXCEPT !.threw = TRUE]

(* a clearRect that leaves the surface as it is *)
clearRectKeep(ctx, x, y, w, h) == ctx

(* clearRect: clearing the whole surface removes everything painted on it *)
clearRect(ctx, x, y, w, h) ==
  IF x <= 0 /\ y <= 0 /\ x + w >= PX(CanvasWidth) /\ y + h >= CanvasHeight
  THEN [ctx EXCEPT !.calls = <<>>]
  ELSE [ctx EXCEPT !.calls = Append(@, [op |-> "clearRect", x |-> x, y |-> y,
                                        w |-> w, h |-> h])]

fillText(ctx, text, x, y) ==
  [ctx EXCEPT !.calls = Append(@, [op |-> "fillText", text |-> text,
                                   x |-> x, y |-> y, font |-> ctx.font,
                                   fillStyle |-> ctx.fillStyle])]

beginPath(ctx) == [ctx EXCEPT !.path = <<>>]

moveTo(ctx, x, y) == [ctx EXCEPT !.path = Append(@, <<"M", x, y>>)]

lineTo(ctx, x, y) == [ctx EXCEPT !.path = Append(@, <<"L", x, y>>)]

stroke(ctx) ==
  [ctx EXCEPT !.calls = Append(@, [op |-> "stroke", path |-> ctx.path,
                                   strokeStyle |-> ctx.strokeStyle,
                                   lineWidth |-> ctx.lineWidth])]

(* A rectangle call with a NaN argument is ignored by the canvas. *)
fillRect(ctx, x, y, w, h) ==
  IF x.nan \/ w.nan THEN ctx
  ELSE [ctx EXCEPT !.calls = Append(@, [op |-> "fillRect", x |-> x.v, y |-> y,
                                        w |-> w.v, h |-> h,
                                        fillStyle |-> ctx.fillStyle])]

strokeRect(ctx, x, y, w, h) ==
  IF x.nan \/ w.nan THEN ctx
  ELSE [ctx EXCEPT !.calls = Append(@, [op |-> "strokeRect", x |-> x.v,
                                        y |-> y, w |-> w.v, h |-> h,
                                        strokeStyle |-> ctx.strokeStyle,
                                        lineWidth |-> ctx.lineWidth])]

-----------------------------------------------------------------------------
(* drawDutyStatusTimeline *)

(* x + (time / 24) * width, NaN when the time is *)
barX(x, time, width) ==
  IF time.nan THEN NaN ELSE Num(PX(x) + time.v * width)

NumMinus(a, b) == IF a.nan \/ b.nan THEN NaN ELSE Num(a.v - b.v)

rowIndex(activity) ==
  IF activity.type = "driving" THEN 2
  ELSE IF activity.type = "on_duty" THEN 3
  ELSE 0

(* barFillStyle testing for 'on-duty', a type no activity has *)
barFillStyleHyphen(activity) ==
  IF activity.type = "driving" THEN "#e74c3c"
  ELSE IF activity.type = "on-duty" THEN "#f39c12"
  ELSE "#3498db"

barFillStyle(activity) ==
  IF activity.type = "driving" THEN "#e74c3c"
  ELSE IF activity.type = "on_duty" THEN "#f39c12"
  ELSE "#3498db"

(* the callback of activities.forEach *)
drawActivity(ctx, activity, x, yStart, width, rowHeight) ==
  LET startTime == parseTime(activity, "start")
      endTime == parseTime(activity, "end")
  IN IF startTime.threw \/ endTime.threw THEN Throw(ctx)
     ELSE LET startX == barX(x, startTime.val, width)
              endX == barX(x, endTime.val, width)
              y == yStart + rowIndex(activity) * rowHeight - 10
              barHeight == rowHeight - 2
              c1 == [ctx EXCEPT !.fillStyle = barFillStyle(activity)]
              c2 == fillRect(c1, startX, y, NumMinus(endX, startX), barHeight)
              c3 == [c2 EXCEPT !.strokeStyle = "#000", !.lineWidth = 1]
          IN strokeRect(c3, startX, y, NumMinus(endX, startX), barHeight)

(* forEach skipping an activity equal to the one before it *)
RECURSIVE forEachActivityDedup(_, _, _, _, _, _, _)
forEachActivityDedup(ctx, activities, k, x, yStart, width, rowHeight) ==
  IF ctx.threw \/ k > Len(activities) THEN ctx
  ELSE forEachActivityDedup(
         IF k > 1 /\ activities[k] = activities[k - 1] THEN ctx
         ELSE drawActivity(ctx, activities[k], x, yStart, width, rowHeight),
         activities, k + 1, x, yStart, width, rowHeight)

RECURSIVE forEachActivity(_, _, _, _, _, _, _)
forEachActivity(ctx, activities, k, x, yStart, width, rowHeight) ==
  IF ctx.threw \/ k > Len(activities) THEN ctx
  ELSE forEachActivity(drawActivity(ctx, activities[k], x, yStart, width,
                                    rowHeight),
                       activities, k + 1, x, yStart, width, rowHeight)

(* drawDutyStatusTimeline reading activities[0].start before the loop *)
drawDutyStatusTimelineFirst(ctx, log, x, yStart, width, rowHeight) ==
  LET activities == IF "activities" \in DOMAIN log THEN log.activities
                    ELSE <<>>
  IN IF activities = <<>> THEN Throw(ctx)
     ELSE forEachActivity(ctx, activities, 1, x, yStart, width, rowHeight)

drawDutyStatusTimeline(ctx, log, x, yStart, width, rowHeight) ==
  LET activities == IF "activities" \in DOMAIN log THEN log.activities
                    ELSE <<>>
  IN forEachActivity(ctx, activities, 1, x, yStart, width, rowHeight)

-----------------------------------------------------------------------------
(* drawLogSheet *)

statusLabels ==
  <<"1. Off Duty", "2. Sleeper Berth", "3. Driving",
    "4. On Duty (not driving)">>

(* fillFixed with (obj.key || 0).toFixed(2) *)
fillFixedDefaulting(ctx, prefix, obj, key, suffix, x, y) ==
  fillText(ctx,
           prefix \o toFixed(IF key \in DOMAIN obj THEN obj[key] ELSE 0)
                  \o suffix,
           x, y)

(* a fillText of a template with obj.key.toFixed(2): TypeError when the *)
(* number is undefined                                                   *)
fillFixed(ctx, prefix, obj, key, suffix, x, y) ==
  IF key \notin DOMAIN obj THEN Throw(ctx)
  ELSE fillText(ctx, prefix \o toFixed(obj[key]) \o suffix, x, y)

drawHeader(ctx, width, log) ==
  LET c1 == [ctx EXCEPT !.fillStyle = "#000", !.font = "bold 16px Arial"]
      c2 == fillText(c1, "Drivers Daily Log (24 hours)", PX(margin), 30)
      c3 == [c2 EXCEPT !.font = "12px Arial"]
      c4 == fillText(c3, "Date: " \o toLocaleDateString(log),
                     PX(width - 200), 30)
      c5 == fillText(c4, "From: " \o Interp(log, "origin"), PX(margin), 60)
      c6 == fillText(c5, "To: " \o Interp(log, "destination"), PX(margin), 80)
  IN fillFixed(c6, "Total Miles: ", log, "total_miles_driving", "",
               PX(margin), 100)

RECURSIVE drawStatusLabels(_, _, _)
drawStatusLabels(ctx, index, statusYStart) ==
  IF ctx.threw \/ index > Len(statusLabels) - 1 THEN ctx
  ELSE LET y == statusYStart + index * statusRowHeight
       IN drawStatusLabels(fillText(ctx, statusLabels[index + 1],
                                    PX(margin + 20), y + 15),
                           index + 1, statusYStart)

RECURSIVE drawRowLines(_, _, _, _, _)
drawRowLines(ctx, i, timelineX, timelineWidth, statusYStart) ==
  IF ctx.threw \/ i > 4 THEN ctx
  ELSE LET y == statusYStart + i * statusRowHeight - 10
           c1 == beginPath(ctx)
           c2 == moveTo(c1, PX(timelineX), y)
           c3 == lineTo(c2, PX(timelineX + timelineWidth), y)
       IN drawRowLines(stroke(c3), i + 1, timelineX, timelineWidth,
                       statusYStart)

(* hourLabel testing hour > 11 before Noon *)
hourLabelNoNoon(hour) ==
  IF hour = 0 THEN "Mid"
  ELSE IF hour > 11 THEN ToString(hour - 12)
  ELSE ToString(hour)

hourLabel(hour) ==
  IF hour = 0 THEN "Mid"
  ELSE IF hour = 12 THEN "Noon"
  ELSE IF hour > 12 THEN ToString(hour - 12)
  ELSE ToString(hour)

(* the tick of an hour at timelineX + (hour / 25) * timelineWidth *)
tickXOver25(hour, timelineX, timelineWidth) ==
  PX(timelineX) + (hour * Sub * timelineWidth) \div 25

(* timelineX + (hour / 24) * timelineWidth *)
tickX(hour, timelineX, timelineWidth) ==
  PX(timelineX) + (hour * 60) * timelineWidth

(* drawTimeMarkers with the loop condition hour < 24 *)
RECURSIVE drawTimeMarkersShort(_, _, _, _, _)
drawTimeMarkersShort(ctx, hour, timelineX, timelineWidth, statusYStart) ==
  IF ctx.threw \/ hour > 23 THEN ctx
  ELSE LET x == tickX(hour, timelineX, timelineWidth)
           c1 == beginPath(ctx)
           c2 == moveTo(c1, x, statusYStart - 10)
           c3 == lineTo(c2, x, statusYStart + 4 * statusRowHeight - 10)
           c4 == stroke(c3)
           c5 == IF hour % 2 = 0
                 THEN fillText(c4, hourLabel(hour), x - PX(10),
                               statusYStart - 15)
                 ELSE c4
       IN drawTimeMarkersShort(c5, hour + 1, timelineX, timelineWidth,
                               statusYStart)

RECURSIVE drawTimeMarkers(_, _, _, _, _)
drawTimeMarkers(ctx, hour, timelineX, timelineWidth, statusYStart) ==
  IF ctx.threw \/ hour > 24 THEN ctx
  ELSE LET x == tickX(hour, timelineX, timelineWidth)
           c1 == beginPath(ctx)
           c2 == moveTo(c1, x, statusYStart - 10)
           c3 == lineTo(c2, x, statusYStart + 4 * statusRowHeight - 10)
           c4 == stroke(c3)
           c5 == IF hour % 2 = 0
                 THEN fillText(c4, hourLabel(hour), x - PX(10),
                               statusYStart - 15)
                 ELSE c4
       IN drawTimeMarkers(c5, hour + 1, timelineX, timelineWidth,
                          statusYStart)

drawGrid(ctx, timelineX, timelineWidth, statusYStart) ==
  IF ctx.threw THEN ctx
  ELSE LET c1 == drawStatusLabels(ctx, 0, statusYStart)
           c2 == [c1 EXCEPT !.strokeStyle = "#333", !.lineWidth = 1]
           c3 == drawRowLines(c2, 0, timelineX, timelineWidth, statusYStart)
           c4 == [c3 EXCEPT !.font = "10px Arial", !.fillStyle = "#333"]
       IN drawTimeMarkers(c4, 0, timelineX, timelineWidth, statusYStart)

recapLine(ctx, prefix, log, key, suffix, y) ==
  IF ctx.threw THEN ctx
  ELSE IF "recap" \notin DOMAIN log THEN Throw(ctx)
  ELSE fillFixed(ctx, prefix, log.recap, key, suffix, PX(margin), y)

drawRecap(ctx, log) ==
  IF ctx.threw THEN ctx
  ELSE LET recapY == timelineY + timelineHeight + 50
           c1 == [ctx EXCEPT !.font = "bold 14px Arial"]
           c2 == fillText(c1, "Recap: Complete at end of day", PX(margin),
                          recapY)
           c3 == [c2 EXCEPT !.font = "12px Arial"]
           c4 == recapLine(c3, "On duty hours today: ", log, "on_duty_hours",
                           "", recapY + 30)
           c5 == recapLine(c4, "Driving hours: ", log, "driving_hours", "",
                           recapY + 50)
           c6 == recapLine(c5, "Off duty hours: ", log, "off_duty_hours", "",
                           recapY + 70)
           c7 == recapLine(c6, "Total 70hr/8day: ", log, "total_70hr_8day",
                           "", recapY + 90)
       IN recapLine(c7, "Available tomorrow: ", log, "available_tomorrow",
                    " hrs", recapY + 110)

(* drawLogSheet calling drawDutyStatusTimeline before it draws the grid *)
drawLogSheetBarsFirst(ctx, width, height, log) ==
  LET timelineWidth == width - 2 * margin - 200
      timelineX == margin + 200
      statusYStart == timelineY + 20
      c1 == drawHeader(ctx, width, log)
      c2 == IF c1.threw THEN c1
            ELSE drawDutyStatusTimeline(c1, log, timelineX, statusYStart,
                                        timelineWidth, statusRowHeight)
      c3 == drawGrid(c2, timelineX, timelineWidth, statusYStart)
  IN drawRecap(c3, log)

drawLogSheet(ctx, width, height, log) ==
  LET timelineWidth == width - 2 * margin - 200
      timelineX == margin + 200
      statusYStart == timelineY + 20
      c1 == drawHeader(ctx, width, log)
      c2 == drawGrid(c1, timelineX, timelineWidth, statusYStart)
      c3 == IF c2.threw THEN c2
            ELSE drawDutyStatusTimeline(c2, log, timelineX, statusYStart,
                                        timelineWidth, statusRowHeight)
  IN drawRecap(c3, log)

-----------------------------------------------------------------------------
(* The components *)

(* The element a LogSheet returns for (log, dayNumber): [threw, el].  The *)
(* summary reads log.recap.*.toFixed and log.total_miles_driving.toFixed, *)
(* a TypeError when one of them is undefined.                             *)
LogSheet(log, dayNumber) ==
  IF \/ "recap" \notin DOMAIN log
     \/ "total_miles_driving" \notin DOMAIN log
     \/ {"driving_hours", "on_duty_hours", "off_duty_hours"}
           \ DOMAIN log.recap # {}
  THEN [threw |-> TRUE, dayNumber |-> dayNumber, log |-> log]
  ELSE [threw |-> FALSE, dayNumber |-> dayNumber, log |-> log,
        header |-> "Day " \o ToString(dayNumber) \o " - "
                     \o toLocaleDateString(log),
        summary |->
          <<"Driving Hours: " \o toFixed(log.recap.driving_hours) \o " hrs",
            "On Duty Hours: " \o toFixed(log.recap.on_duty_hours) \o " hrs",
            "Off Duty Hours: " \o toFixed(log.recap.off_duty_hours) \o " hrs",
            "Total Miles: " \o toFixed(log.total_miles_driving) \o " miles">>]

(* dayNumber={index} *)
dayNumberOfIndex(index) == index

(* dayNumber of the element at 0-based index *)
dayNumberOf(index) == index + 1

(* LogSheets: null (no element) without logs, else one LogSheet per log *)
LogSheets(p) ==
  IF "logs" \notin DOMAIN p \/ Len(p.logs) = 0 THEN <<>>
  ELSE [i \in 1..Len(p.logs) |-> LogSheet(p.logs[i], dayNumberOf(i - 1))]

(* the effect without its clearRect *)
LogSheetEffectNoClear(ctx, log) ==
  LET width == CanvasWidth
      height == CanvasHeight
      c2 == [ctx EXCEPT !.fillStyle = "#000", !.strokeStyle = "#000",
                        !.lineWidth = 1, !.font = "12px Arial"]
  IN drawLogSheet(c2, width, height, log)

(* the body of LogSheet's effect, on the sheet's canvas context *)
LogSheetEffect(ctx, log) ==
  LET width == CanvasWidth
      height == CanvasHeight
      c1 == clearRect(ctx, 0, 0, PX(width), height)
      c2 == [c1 EXCEPT !.fillStyle = "#000", !.strokeStyle = "#000",
                       !.lineWidth = 1, !.font = "12px Arial"]
  IN drawLogSheet(c2, width, height, log)

-----------------------------------------------------------------------------
(* Inputs *)

EmptyObj == [k \in {} |-> TRUE]

Without(obj, key) == [k \in DOMAIN obj \ {key} |-> obj[k]]

SeqsUpTo(S, n) == UNION {[1..k -> S] : k \in 0..n}

Fmt2(n) == <<Digits[(n \div 10) + 1], Digits[(n % 10) + 1]>>

TimeStr(hm) == Fmt2(hm[1]) \o <<":">> \o Fmt2(hm[2])

ActivityTypes ==
  {"off_duty", "sleeper_berth", "driving", "on_duty", "unknown_type"}

(* <<start, end>> as <<hours, minutes>> pairs: a day tiled by three spans,
   and an empty span *)
ValidSpans ==
  {<<<<0, 0>>, <<6, 0>>>>, <<<<6, 0>>, <<13, 15>>>>,
   <<<<13, 15>>, <<24, 0>>>>, <<<<13, 15>>, <<13, 15>>>>}

ValidActivities ==
  {[type |-> t, start |-> TimeStr(se[1]), end |-> TimeStr(se[2])] :
     t \in ActivityTypes, se \in ValidSpans}

MalformedActivities ==
  {[type |-> "driving", start |-> <<"a", "b">>, end |-> TimeStr(<<24, 0>>)],
   [type |-> "driving", start |-> TimeStr(<<0, 0>>), end |-> <<"1", "2">>],
   [type |-> "driving", end |-> TimeStr(<<24, 0>>)]}

Activities == ValidActivities \cup MalformedActivities

BaseRecap ==
  [driving_hours |-> 1300, on_duty_hours |-> 100, off_duty_hours |-> 1000,
   total_70hr_8day |-> 3500, available_tomorrow |-> 1100]

RecapFields == DOMAIN BaseRecap

BaseLog(d, acts) ==
  [date |-> d, origin |-> "New York, NY", destination |-> "Chicago, IL",
   total_miles_driving |-> 135000, activities |-> acts, recap |-> BaseRecap]

Dates == {"2024-03-01", "2024-03-02"}

SomeActs ==
  <<[type |-> "off_duty", start |-> TimeStr(<<0, 0>>),
     end |-> TimeStr(<<6, 0>>)],
    [type |-> "driving", start |-> TimeStr(<<6, 0>>),
     end |-> TimeStr(<<13, 15>>)]>>

(* one day, any activity list *)
ActivityLogs == {BaseLog("2024-03-01", a) : a \in SeqsUpTo(Activities, MaxActs)}

(* one day, one number missing *)
IncompleteLogs ==
  {[BaseLog("2024-03-01", SomeActs) EXCEPT !.recap = Without(@, f)] :
     f \in RecapFields}
  \cup {Without(BaseLog("2024-03-01", SomeActs), "recap"),
        Without(BaseLog("2024-03-01", SomeActs), "total_miles_driving")}

(* the days of a multi-day trip *)
TripDays ==
  {BaseLog(d, SomeActs) : d \in Dates}
  \cup {[BaseLog("2024-03-01", SomeActs) EXCEPT !.recap = Without(@, f)] :
          f \in {"driving_hours", "available_tomorrow"}}
  \cup {BaseLog("2024-03-01", <<a>>) : a \in MalformedActivities}

LogSeqs ==
  {<<l>> : l \in ActivityLogs \cup IncompleteLogs}
  \cup SeqsUpTo(TripDays, MaxDays)

Inputs == {EmptyObj} \cup {[logs |-> s] : s \in LogSeqs}

-----------------------------------------------------------------------------
(* The life of one mounted LogSheets tree *)

(* null, and a string held in a state cell that can be null *)
null == [null |-> TRUE]

Str(m) == [str |-> m]

(* what the sheets showed before the logs prop last changed: nothing yet *)
NoPrev == [any |-> FALSE, props |-> EmptyObj, canvas |-> <<>>]

(* the useState initial values of App; no submission has been made *)
InitApp ==
  /\ tripData = null
  /\ loading = FALSE
  /\ error = null
  /\ tripLocations = null
  /\ inflight = <<>>
  /\ outcome = "none"

Init ==
  /\ props \in Inputs
  /\ phase = "pending"
  /\ dom = <<>>
  /\ canvas = <<>>
  /\ effectIdx = 0
  /\ crashed = FALSE
  /\ prev = NoPrev
  /\ InitApp

(* The render phase: LogSheets and every LogSheet it returns.  A throw in *)
(* any of them is uncaught (no error boundary): the tree is unmounted.    *)
(* A LogSheet at an index that was mounted keeps its canvas (key={index}); *)
(* a new index gets a new canvas, an index no longer there loses its own.  *)
Render ==
  /\ phase = "pending"
  /\ LET tree == LogSheets(props)
     IN IF \E i \in 1..Len(tree) : tree[i].threw
        THEN /\ crashed' = TRUE
             /\ dom' = <<>>
             /\ canvas' = <<>>
             /\ effectIdx' = 0
             /\ phase' = "done"
        ELSE /\ crashed' = FALSE
             /\ dom' = tree
             /\ canvas' = [i \in 1..Len(tree) |->
                            IF i <= Len(canvas) THEN canvas[i]
                            ELSE NewContext]
             /\ effectIdx' = IF Len(tree) = 0 THEN 0 ELSE 1
             /\ phase' = IF Len(tree) = 0 THEN "done" ELSE "effects"
  /\ UNCHANGED <<props, prev, appVars>>

(* The effect of the next LogSheet, in sibling order.  A throw in it is *)
(* uncaught as well and unmounts the tree.                              *)
RunEffect ==
  /\ phase = "effects"
  /\ LET ctx == LogSheetEffect(canvas[effectIdx], dom[effectIdx].log)
     IN /\ canvas' = [canvas EXCEPT ![effectIdx] = ctx]
        /\ IF ctx.threw
           THEN /\ crashed' = TRUE
                /\ dom' = <<>>
                /\ phase' = "done"
                /\ effectIdx' = effectIdx
           ELSE /\ crashed' = FALSE
                /\ dom' = dom
                /\ phase' = IF effectIdx = Len(dom) THEN "done" ELSE "effects"
                /\ effectIdx' = effectIdx + 1
  /\ UNCHANGED <<props, prev, appVars>>

Next == Render \/ RunEffect

Spec == Init /\ [][Next]_vars

-----------------------------------------------------------------------------
(* A mounted LogSheets tree that is given new logs *)

RerenderActs ==
  {[type |-> "off_duty", start |-> TimeStr(<<0, 0>>),
    end |-> TimeStr(<<6, 0>>)],
   [type |-> "driving", start |-> TimeStr(<<6, 0>>),
    end |-> TimeStr(<<13, 15>>)]}

RerenderDays == {BaseLog(d, SomeActs) : d \in Dates}

RerenderInputs ==
  {EmptyObj}
  \cup {[logs |-> <<BaseLog("2024-03-01", a)>>] :
          a \in SeqsUpTo(RerenderActs, MaxActs)}
  \cup {[logs |-> s] : s \in SeqsUpTo(RerenderDays, MaxDays)}
  \cup {[logs |-> <<[BaseLog("2024-03-01", SomeActs) EXCEPT
                      !.recap = Without(@, "available_tomorrow")]>>]}

(* The parent renders <LogSheets logs={...}/> with logs of a new          *)
(* response.  The LogSheet at an index that stays keeps its instance and  *)
(* its canvas (key={index}); its log is a new object, so its effect       *)
(* (deps [log]) runs again.                                               *)
NewLogs(p) ==
  /\ props' = p
  /\ phase' = "pending"
  /\ effectIdx' = 0
  /\ prev' = [any |-> TRUE, props |-> props, canvas |-> canvas]
  /\ UNCHANGED <<dom, canvas, crashed>>

Receive ==
  /\ phase = "done"
  /\ ~crashed
  /\ \E p \in RerenderInputs : NewLogs(p)
  /\ UNCHANGED appVars

InitRerender ==
  /\ props \in RerenderInputs
  /\ phase = "pending"
  /\ dom = <<>>
  /\ canvas = <<>>
  /\ effectIdx = 0
  /\ crashed = FALSE
  /\ prev = NoPrev
  /\ InitApp

NextRerender == Render \/ RunEffect \/ Receive

SpecRerender == InitRerender /\ [][NextRerender]_vars

-----------------------------------------------------------------------------
(* App: handleTripSubmit *)

(* what TripForm's handleSubmit passes to onSubmit *)
Forms ==
  {[current_location |-> "New York, NY", pickup_location |-> "Columbus, OH",
    dropoff_location |-> "Chicago, IL", current_cycle_used |-> 0],
   [current_location |-> "Dallas, TX", pickup_location |-> "Tulsa, OK",
    dropoff_location |-> "Denver, CO", current_cycle_used |-> 35]}

(* what response.json() resolves with: a trip of one day, of two days, a *)
(* body without eld_logs, and a trip whose log lacks a recap number      *)
Payloads ==
  {[route |-> "route-1", eld_logs |-> <<BaseLog("2024-03-01", SomeActs)>>],
   [route |-> "route-2",
    eld_logs |-> <<BaseLog("2024-03-01", SomeActs),
                   BaseLog("2024-03-02", SomeActs)>>],
   [route |-> "route-3"],
   [route |-> "route-4",
    eld_logs |-> <<[BaseLog("2024-03-01", SomeActs) EXCEPT
                     !.recap = Without(@, "driving_hours")]>>]}

(* the messages of the errors fetch and response.json() reject with *)
FetchErrors == {"Failed to fetch"}

JsonErrors == {"Unexpected end of JSON input"}

RemoveAt(seq, k) == [j \in 1..(Len(seq) - 1) |->
                      IF j < k THEN seq[j] ELSE seq[j + 1]]

(* The form is submitted.  The submit button is disabled while loading;  *)
(* the click is handled when the tree is mounted and has settled.  The   *)
(* handler runs to its first await.                                      *)
Submit ==
  /\ ~crashed
  /\ phase = "done"
  /\ ~loading
  /\ \E formData \in Forms :
       inflight' = Append(inflight, [formData |-> formData, stage |-> "fetch"])
  /\ loading' = TRUE
  /\ error' = null
  /\ UNCHANGED <<tripData, tripLocations, outcome>>
  /\ UNCHANGED <<props, phase, dom, canvas, effectIdx, crashed, prev>>

(* catch and finally, after an error with message m in invocation k *)
CatchFinally(k, m) ==
  /\ error' = Str(m)
  /\ loading' = FALSE
  /\ inflight' = RemoveAt(inflight, k)
  /\ outcome' = "failed"
  /\ UNCHANGED <<tripData, tripLocations>>
  /\ UNCHANGED <<props, phase, dom, canvas, effectIdx, crashed, prev>>

(* await fetch(...) throws *)
FetchRejects ==
  \E k \in 1..Len(inflight) :
    /\ inflight[k].stage = "fetch"
    /\ \E m \in FetchErrors : CatchFinally(k, m)

(* a non-ok response whose handling leaves loading set *)
ResponseNotOkNoFinally ==
  \E k \in 1..Len(inflight) :
    /\ inflight[k].stage = "fetch"
    /\ error' = Str("Failed to calculate trip")
    /\ inflight' = RemoveAt(inflight, k)
    /\ outcome' = "failed"
    /\ UNCHANGED <<loading, tripData, tripLocations>>
    /\ UNCHANGED <<props, phase, dom, canvas, effectIdx, crashed, prev>>

(* fetch resolves with a response that is not ok *)
ResponseNotOk ==
  \E k \in 1..Len(inflight) :
    /\ inflight[k].stage = "fetch"
    /\ CatchFinally(k, "Failed to calculate trip")

(* fetch resolves with an ok response; the handler awaits response.json() *)
ResponseOk ==
  \E k \in 1..Len(inflight) :
    /\ inflight[k].stage = "fetch"
    /\ inflight' = [inflight EXCEPT ![k].stage = "json"]
    /\ UNCHANGED <<loading, error, tripData, tripLocations, outcome>>
    /\ UNCHANGED <<props, phase, dom, canvas, effectIdx, crashed, prev>>

(* await response.json() throws *)
JsonRejects ==
  \E k \in 1..Len(inflight) :
    /\ inflight[k].stage = "json"
    /\ \E m \in JsonErrors : CatchFinally(k, m)

(* response.json() resolves: setTripData, setTripLocations and, in        *)
(* finally, setLoading(false), in one batch; App then renders LogSheets  *)
(* with data.eld_logs.                                                   *)
JsonResolves ==
  \E k \in 1..Len(inflight) :
    /\ inflight[k].stage = "json"
    /\ \E data \in Payloads :
         /\ tripData' = data
         /\ NewLogs(IF "eld_logs" \in DOMAIN data
                    THEN [logs |-> data.eld_logs] ELSE EmptyObj)
    /\ tripLocations' =
         [current |-> inflight[k].formData.current_location,
          pickup |-> inflight[k].formData.pickup_location,
          dropoff |-> inflight[k].formData.dropoff_location]
    /\ loading' = FALSE
    /\ inflight' = RemoveAt(inflight, k)
    /\ outcome' = "ok"
    /\ UNCHANGED error

(* App mounted, nothing submitted: tripData is null and LogSheets is not *)
(* rendered                                                              *)
InitAppTree ==
  /\ props = EmptyObj
  /\ phase = "done"
  /\ dom = <<>>
  /\ canvas = <<>>
  /\ effectIdx = 0
  /\ crashed = FALSE
  /\ prev = NoPrev
  /\ InitApp

NextApp ==
  \/ Submit
  \/ FetchRejects
  \/ ResponseNotOk
  \/ ResponseOk
  \/ JsonRejects
  \/ JsonResolves
  \/ Render
  \/ RunEffect

SpecApp == InitAppTree /\ [][NextApp]_vars

-----------------------------------------------------------------------------
(* What the properties read off a state *)

Days == IF "logs" \in DOMAIN props THEN props.logs ELSE <<>>

(* the effect of sheet i has run, to its end or to a throw *)
EffectRan(i) == i \in 1..Len(canvas) /\ (i < effectIdx \/ canvas[i].threw)

Completed(i) == EffectRan(i) /\ ~canvas[i].threw

Calls(i) == canvas[i].calls

IsFillRect(c) == c.op = "fillRect"

IsStrokeRect(c) == c.op = "strokeRect"

IsVertical(c) == c.op = "stroke" /\ c.path[1][2] = c.path[2][2]

IsHorizontal(c) == c.op = "stroke" /\ c.path[1][3] = c.path[2][3]

IsHourLabel(c) == c.op = "fillText" /\ c.font = "10px Arial"

Bars(i) == SelectSeq(Calls(i), IsFillRect)

Borders(i) == SelectSeq(Calls(i), IsStrokeRect)

Ticks(i) == SelectSeq(Calls(i), IsVertical)

Separators(i) == SelectSeq(Calls(i), IsHorizontal)

HourLabels(i) == SelectSeq(Calls(i), IsHourLabel)

ActsOf(i) ==
  IF "activities" \in DOMAIN Days[i] THEN Days[i].activities ELSE <<>>

(* every activity of day i has times in [00:00, 24:00] with start <= end *)
WellTimed(i) == \A k \in 1..Len(ActsOf(i)) : ActsOf(i)[k] \in ValidActivities

(* a DailyLog with every number present and every activity well timed *)
Healthy(log) ==
  /\ "recap" \in DOMAIN log
  /\ RecapFields \subseteq DOMAIN log.recap
  /\ "total_miles_driving" \in DOMAIN log
  /\ "activities" \in DOMAIN log =>
       \A k \in 1..Len(log.activities) : log.activities[k] \in ValidActivities

SpanOf(a) ==
  CHOOSE se \in ValidSpans :
    TimeStr(se[1]) = a.start /\ TimeStr(se[2]) = a.end

(* minutes since midnight of <<hours, minutes>> *)
MinuteOf(hm) == hm[1] * 60 + hm[2]

(* The time axis of the 1000-wide sheet: x0 + (h/24)*w with x0 = 240 and *)
(* w = 720, for a time of m minutes, in units of 1/(24*60).              *)
TimeAxisMapper(m) == PX(240) + m * 720

(* the top of duty-status row r: the separator above it *)
RowTop(r) == 260 + 50 * r

(* the row the specification assigns to a type *)
SpecRow(type) ==
  CASE type = "off_duty" -> 0
    [] type = "sleeper_berth" -> 1
    [] type = "driving" -> 2
    [] type = "on_duty" -> 3
    [] OTHER -> 0

-----------------------------------------------------------------------------
(* C1: every drawn activity's bar is in the row of its type: off_duty in  *)
(* row 0, sleeper_berth in row 1, driving in row 2, on_duty in row 3, any *)
(* other type in row 0, and the render does not fail.                     *)
C1_RowOfType ==
  \A i \in 1..Len(canvas) :
    (EffectRan(i) /\ Healthy(Days[i])) =>
      LET acts == ActsOf(i)
          bars == Bars(i)
      IN /\ ~canvas[i].threw
         /\ Len(bars) = Len(acts)
         /\ \A k \in 1..Len(acts) :
              bars[k].y = RowTop(SpecRow(acts[k].type))

(* C2: for an activity with times in [00:00, 24:00] and start <= end, the *)
(* rectangle's left edge is TimeAxisMapper(start) and its left edge plus  *)
(* its width is TimeAxisMapper(end), for the fill and for the border.     *)
C2_BarExtent ==
  \A i \in 1..Len(canvas) :
    (EffectRan(i) /\ WellTimed(i)) =>
      LET acts == ActsOf(i)
          bars == Bars(i)
          borders == Borders(i)
      IN /\ Len(bars) = Len(acts)
         /\ Len(borders) = Len(acts)
         /\ \A k \in 1..Len(acts) :
              LET se == SpanOf(acts[k])
              IN \A r \in {bars[k], borders[k]} :
                   /\ r.x = TimeAxisMapper(MinuteOf(se[1]))
                   /\ r.x + r.w = TimeAxisMapper(MinuteOf(se[2]))

(* a sheet drawn with a bar that starts at 13:15, off the hour grid *)
C2_Witness ==
  \E i \in 1..Len(canvas) :
    /\ Completed(i)
    /\ WellTimed(i)
    /\ \E k \in 1..Len(ActsOf(i)) :
         /\ SpanOf(ActsOf(i)[k]) = <<<<13, 15>>, <<24, 0>>>>
         /\ Bars(i)[k].w > 0

(* C3: the time axis is non-decreasing in the hour, starts at x0 = 240    *)
(* for hour 0 and ends at x0 + w = 960 for hour 24, and ticks and bars    *)
(* use the same mapping: a bar edge on an integer hour is on that hour's  *)
(* tick, and any bar edge lies between the ticks of the hours around it.  *)
C3_TimeAxis ==
  \A i \in 1..Len(canvas) :
    EffectRan(i) =>
      LET t == Ticks(i)
          tx == [h \in 0..(Len(t) - 1) |-> t[h + 1].path[1][2]]
          acts == ActsOf(i)
          bars == Bars(i)
      IN /\ Len(t) = 25
         /\ tx[0] = PX(240)
         /\ tx[24] = PX(240 + 720)
         /\ \A h \in 0..23 : tx[h] <= tx[h + 1]
         /\ WellTimed(i) =>
              \A k \in 1..Len(acts) :
                LET se == SpanOf(acts[k])
                    s == MinuteOf(se[1])
                    e == MinuteOf(se[2])
                    b == bars[k]
                IN /\ b.x <= b.x + b.w
                   /\ \A h \in 0..24 :
                        /\ s = 60 * h => b.x = tx[h]
                        /\ s >= 60 * h => b.x >= tx[h]
                        /\ s <= 60 * h => b.x <= tx[h]
                        /\ e = 60 * h => b.x + b.w = tx[h]
                        /\ e >= 60 * h => b.x + b.w >= tx[h]
                        /\ e <= 60 * h => b.x + b.w <= tx[h]

(* a sheet drawn with a bar from 06:00 to 13:15, its left edge on the *)
(* tick of hour 6                                                     *)
C3_Witness ==
  \E i \in 1..Len(canvas) :
    /\ Completed(i)
    /\ WellTimed(i)
    /\ \E k \in 1..Len(ActsOf(i)) :
         /\ SpanOf(ActsOf(i)[k]) = <<<<6, 0>>, <<13, 15>>>>
         /\ Bars(i)[k].x = Ticks(i)[7].path[1][2]

(* C4: every drawn sheet has exactly 5 row separators, 25 hour ticks and  *)
(* 13 hour labels, at positions that do not depend on the DailyLog.       *)
C4_Grid ==
  \A i \in 1..Len(canvas) :
    EffectRan(i) =>
      LET seps == Separators(i)
          t == Ticks(i)
          labels == HourLabels(i)
      IN /\ Len(seps) = 5
         /\ \A k \in 1..5 :
              seps[k].path = <<<<"M", PX(240), RowTop(k - 1)>>,
                               <<"L", PX(960), RowTop(k - 1)>>>>
         /\ Len(t) = 25
         /\ \A h \in 0..24 :
              t[h + 1].path = <<<<"M", PX(240 + 30 * h), 260>>,
                                <<"L", PX(240 + 30 * h), 460>>>>
         /\ Len(labels) = 13
         /\ \A k \in 1..13 :
              /\ labels[k].x = PX(240 + 60 * (k - 1) - 10)
              /\ labels[k].y = 255

(* two drawn sheets of one trip whose logs differ, or a drawn sheet with *)
(* no activity at all                                                    *)
C4_Witness ==
  /\ phase = "done"
  /\ \/ /\ Len(canvas) = 2
        /\ Completed(1)
        /\ Completed(2)
        /\ Days[1] # Days[2]
     \/ /\ Len(canvas) = 1
        /\ Completed(1)
        /\ ActsOf(1) = <<>>

(* C5: an hour label is drawn for the even hours 0, 2, ..., 24 and for no *)
(* odd hour; hour 0 reads "Mid", hour 12 "Noon", hours 1..11 their        *)
(* numeral and hours 13..23 the hour minus 12.                            *)
C5_HourLabels ==
  \A i \in 1..Len(canvas) :
    EffectRan(i) =>
      LET t == Ticks(i)
          labels == HourLabels(i)
      IN /\ Len(t) = 25
         /\ \A k \in 1..Len(labels) :
              \E h \in 0..24 : labels[k].x + PX(10) = t[h + 1].path[1][2]
         /\ \A h \in 0..24 :
              LET at == {k \in 1..Len(labels) :
                           labels[k].x + PX(10) = t[h + 1].path[1][2]}
              IN /\ (h % 2 = 0) <=> (at # {})
                 /\ Cardinality(at) <= 1
                 /\ h < 24 =>
                      \A k \in at :
                        labels[k].text =
                          (IF h = 0 THEN "Mid"
                           ELSE IF h = 12 THEN "Noon"
                           ELSE IF h < 12 THEN ToString(h)
                           ELSE ToString(h - 12))

(* a drawn sheet whose seventh label, at the tick of hour 12, is "Noon" *)
C5_Witness ==
  \E i \in 1..Len(canvas) :
    /\ Completed(i)
    /\ Len(HourLabels(i)) = 13
    /\ HourLabels(i)[7].text = "Noon"
    /\ HourLabels(i)[7].x + PX(10) = Ticks(i)[13].path[1][2]

(* the builder a call belongs to, by what it draws and where *)
KindOf(c) ==
  IF c.op \in {"fillRect", "strokeRect"} THEN "bar"
  ELSE IF c.op = "stroke" THEN "grid"
  ELSE IF c.op # "fillText" THEN "other"
  ELSE IF c.y <= 100 THEN "header"
  ELSE IF c.y >= 600 THEN "recap"
  ELSE "grid"

(* calls is ordered by rank: no call of a higher rank before one of a lower *)
InOrder(calls, rank) ==
  \A a \in 1..(Len(calls) - 1) :
    rank[KindOf(calls[a])] <= rank[KindOf(calls[a + 1])]

(* C6, as the specification has it: the grid first, then the bars, then *)
(* the header and recap text.                                           *)
C6_GridBarsText ==
  \A i \in 1..Len(canvas) :
    EffectRan(i) =>
      InOrder(Calls(i), [grid |-> 1, bar |-> 2, header |-> 3, recap |-> 3,
                         other |-> 0])

(* C6, amended: within one render the header text (title, date, origin, *)
(* destination, total miles) is drawn first, then all of the grid (row  *)
(* labels, separators, ticks, hour labels), then all activity bars,     *)
(* then the recap text; no bar is drawn before the grid and no recap    *)
(* text before the bars.                                                *)
C6_HeaderGridBarsRecap ==
  \A i \in 1..Len(canvas) :
    EffectRan(i) =>
      InOrder(Calls(i), [header |-> 1, grid |-> 2, bar |-> 3, recap |-> 4,
                         other |-> 0])

(* a sheet drawn to its end with two bars: header, grid, bars and recap *)
(* are all on it                                                        *)
C6_Witness ==
  \E i \in 1..Len(canvas) :
    /\ Completed(i)
    /\ Len(Bars(i)) = 2
    /\ {KindOf(Calls(i)[k]) : k \in 1..Len(Calls(i))} =
         {"header", "grid", "bar", "recap"}

(* C7: when an activity of a day has a start or end that does not parse  *)
(* to a fractional hour, the failure is surfaced and no drawing call is  *)
(* made on that day's sheet.                                             *)
C7_FailFast ==
  \A i \in 1..Len(Days) :
    (\E k \in 1..Len(ActsOf(i)) : ActsOf(i)[k] \in MalformedActivities) =>
      /\ i \in 1..Len(canvas) => Calls(i) = <<>>
      /\ phase = "done" => crashed

(* C8: once the rendering of a sequence has ended, every day that has no *)
(* failure of its own has its sheet: its element is displayed and its    *)
(* canvas is drawn, whatever happened to the other days.                 *)
C8_Isolation ==
  phase = "done" =>
    \A i \in 1..Len(Days) :
      Healthy(Days[i]) =>
        /\ \E j \in 1..Len(dom) : dom[j].dayNumber = i
        /\ Completed(i)

Missing(log, f) == "recap" \notin DOMAIN log \/ f \notin DOMAIN log.recap

(* the y of the recap line of a field on the drawing surface *)
RecapLineY(f) ==
  CASE f = "on_duty_hours" -> 630
    [] f = "driving_hours" -> 650
    [] f = "off_duty_hours" -> 670
    [] f = "total_70hr_8day" -> 690
    [] f = "available_tomorrow" -> 710

(* C9: a recap number absent from a day's log is never rendered: no text *)
(* is drawn on the line of that field on the day's surface, no summary   *)
(* with the field is displayed, and the render ends in a failure.        *)
C9_MissingRecapSurfaced ==
  \A i \in 1..Len(Days) : \A f \in RecapFields :
    Missing(Days[i], f) =>
      /\ i \in 1..Len(canvas) =>
           \A k \in 1..Len(Calls(i)) :
             Calls(i)[k].op = "fillText" => Calls(i)[k].y # RecapLineY(f)
      /\ f \in {"driving_hours", "on_duty_hours", "off_duty_hours"} =>
           dom = <<>>
      /\ phase = "done" => crashed

(* the render of a day without total_70hr_8day has failed after drawing *)
(* the recap lines before it                                            *)
C9_Witness ==
  /\ phase = "done"
  /\ crashed
  /\ Len(Days) = 1
  /\ Missing(Days[1], "total_70hr_8day")
  /\ ~Missing(Days[1], "off_duty_hours")
  /\ \E k \in 1..Len(Calls(1)) :
       Calls(1)[k].op = "fillText" /\ Calls(1)[k].y = RecapLineY("off_duty_hours")

(* C10: N DailyLogs give N sheets in input order, the i-th numbered i    *)
(* whatever its date, each drawn once the render has ended; an empty or  *)
(* absent sequence gives no sheet and no error.                          *)
C10_OneSheetPerDay ==
  (phase # "pending" /\ \A i \in 1..Len(Days) : Healthy(Days[i])) =>
    /\ ~crashed
    /\ Len(dom) = Len(Days)
    /\ Len(canvas) = Len(Days)
    /\ \A i \in 1..Len(Days) :
         /\ dom[i].dayNumber = i
         /\ dom[i].log = Days[i]
         /\ dom[i].header =
              "Day " \o ToString(i) \o " - " \o toLocaleDateString(Days[i])
         /\ phase = "done" => Completed(i)

(* two days given with the later date first, rendered and drawn *)
C10_Witness ==
  /\ phase = "done"
  /\ Len(dom) = 2
  /\ dom[1].header = "Day 1 - 3/2/2024"
  /\ dom[2].header = "Day 2 - 3/1/2024"
  /\ Completed(1)
  /\ Completed(2)

(* the kinds of the calls on sheet i *)
KindsOn(i) == {KindOf(Calls(i)[k]) : k \in 1..Len(Calls(i))}

(* C11: rendering a DailyLog whose activities list is empty succeeds and *)
(* draws only the header, the grid and the recap text: no rectangle,     *)
(* fill or border.                                                       *)
C11_EmptyActivities ==
  \A i \in 1..Len(canvas) :
    (EffectRan(i) /\ Healthy(Days[i]) /\ ActsOf(i) = <<>>) =>
      /\ ~canvas[i].threw
      /\ Bars(i) = <<>>
      /\ Borders(i) = <<>>
      /\ KindsOn(i) = {"header", "grid", "recap"}
      /\ Calls(i)[Len(Calls(i))].y = RecapLineY("available_tomorrow")

(* a sheet drawn to its end for a day with no activity *)
C11_Witness ==
  /\ phase = "done"
  /\ Len(Days) = 1
  /\ ActsOf(1) = <<>>
  /\ Completed(1)
  /\ Len(Calls(1)) > 0

(* the recap section of sheet i is drawn in full *)
RecapDrawn(i) ==
  \A f \in RecapFields :
    \E k \in 1..Len(Calls(i)) :
      Calls(i)[k].op = "fillText" /\ Calls(i)[k].y = RecapLineY(f)

(* C13: an activity whose start equals its end is drawn as a rectangle   *)
(* of width 0 at TimeAxisMapper(start) in the row of its type, nothing   *)
(* fails, and the other activities and the recap text are drawn as well. *)
C13_ZeroWidth ==
  \A i \in 1..Len(canvas) :
    (EffectRan(i) /\ Healthy(Days[i])) =>
      LET acts == ActsOf(i)
          bars == Bars(i)
      IN (\E k \in 1..Len(acts) : acts[k].start = acts[k].end) =>
           /\ ~canvas[i].threw
           /\ Len(bars) = Len(acts)
           /\ RecapDrawn(i)
           /\ \A k \in 1..Len(acts) :
                acts[k].start = acts[k].end =>
                  /\ bars[k].w = 0
                  /\ bars[k].x = TimeAxisMapper(MinuteOf(SpanOf(acts[k])[1]))
                  /\ bars[k].y = RowTop(SpecRow(acts[k].type))

(* the fill colour the specification assigns to a type *)
SpecFill(type) ==
  CASE type = "driving" -> "#e74c3c"
    [] type = "on_duty" -> "#f39c12"
    [] OTHER -> "#3498db"

(* C14: every activity rectangle is drawn with a fill and with a border  *)
(* of width 1 in the same colour #000 whatever the type, and the fill is *)
(* #e74c3c for driving, #f39c12 for on_duty and #3498db for every other  *)
(* type.                                                                 *)
C14_FillAndBorder ==
  \A i \in 1..Len(canvas) :
    (EffectRan(i) /\ WellTimed(i)) =>
      LET acts == ActsOf(i)
          bars == Bars(i)
          borders == Borders(i)
      IN /\ Len(bars) = Len(acts)
         /\ Len(borders) = Len(acts)
         /\ \A k \in 1..Len(acts) :
              /\ bars[k].fillStyle = SpecFill(acts[k].type)
              /\ borders[k].strokeStyle = "#000"
              /\ borders[k].lineWidth = 1
              /\ <<borders[k].x, borders[k].y, borders[k].w, borders[k].h>> =
                   <<bars[k].x, bars[k].y, bars[k].w, bars[k].h>>

(* a sheet with an on_duty bar and a bar of an unknown type *)
C14_Witness ==
  \E i \in 1..Len(canvas) :
    /\ Completed(i)
    /\ WellTimed(i)
    /\ Len(ActsOf(i)) = 2
    /\ ActsOf(i)[1].type = "on_duty"
    /\ ActsOf(i)[2].type = "unknown_type"
    /\ Bars(i)[1].fillStyle = "#f39c12"
    /\ Bars(i)[2].fillStyle = "#3498db"

IsRect(c) == c.op \in {"fillRect", "strokeRect"}

(* C16: one rectangle per activity, in the order of the activities list: *)
(* the rectangle calls are fill 1, border 1, fill 2, border 2, ..., each *)
(* at the span of its activity, with nothing merged, dropped or moved.   *)
C16_InputOrder ==
  \A i \in 1..Len(canvas) :
    (EffectRan(i) /\ WellTimed(i)) =>
      LET acts == ActsOf(i)
          rects == SelectSeq(Calls(i), IsRect)
      IN /\ Len(rects) = 2 * Len(acts)
         /\ \A k \in 1..Len(acts) :
              LET se == SpanOf(acts[k])
              IN /\ rects[2 * k - 1].op = "fillRect"
                 /\ rects[2 * k].op = "strokeRect"
                 /\ \A r \in {rects[2 * k - 1], rects[2 * k]} :
                      /\ r.x = TimeAxisMapper(MinuteOf(se[1]))
                      /\ r.w = MinuteOf(se[2]) * 720 - MinuteOf(se[1]) * 720
                      /\ r.y = RowTop(rowIndex(acts[k]))
                 /\ rects[2 * k - 1].fillStyle = SpecFill(acts[k].type)

(* a sheet whose two activities are the same driving span: two bars, the *)
(* second drawn after the first                                          *)
C16_Witness ==
  \E i \in 1..Len(canvas) :
    /\ Completed(i)
    /\ WellTimed(i)
    /\ Len(ActsOf(i)) = 2
    /\ ActsOf(i)[1] = ActsOf(i)[2]
    /\ ActsOf(i)[1].type = "driving"
    /\ SpanOf(ActsOf(i)[1]) = <<<<6, 0>>, <<13, 15>>>>
    /\ Len(Bars(i)) = 2
    /\ Bars(i)[1] = Bars(i)[2]

(* activities[k].end <= activities[k+1].start throughout *)
NonOverlapping(acts) ==
  \A k \in 1..(Len(acts) - 1) :
    MinuteOf(SpanOf(acts[k])[2]) <= MinuteOf(SpanOf(acts[k + 1])[1])

(* C17: a bar of a well-timed activity lies in the band of its row: its *)
(* top is on the separator above the row of its type, its height is the *)
(* row height less 2 so that its bottom is above the next separator,    *)
(* and its edges are within [x0, x0 + w]; when the activities do not    *)
(* overlap in time, two bars of one row share at most an edge.          *)
C17_InsideRowBand ==
  \A i \in 1..Len(canvas) :
    (EffectRan(i) /\ WellTimed(i)) =>
      LET acts == ActsOf(i)
          bars == Bars(i)
          seps == Separators(i)
          sepY == [r \in 0..4 |-> seps[r + 1].path[1][3]]
      IN /\ Len(bars) = Len(acts)
         /\ Len(seps) = 5
         /\ \A k \in 1..Len(acts) :
              LET r == SpecRow(acts[k].type)
              IN /\ bars[k].y = sepY[r]
                 /\ bars[k].h = statusRowHeight - 2
                 /\ bars[k].y + bars[k].h < sepY[r + 1]
                 /\ bars[k].x >= PX(240)
                 /\ bars[k].x + bars[k].w <= PX(240 + 720)
         /\ NonOverlapping(acts) =>
              \A j \in 1..Len(acts) : \A k \in (j + 1)..Len(acts) :
                bars[j].y = bars[k].y => bars[j].x + bars[j].w <= bars[k].x

-----------------------------------------------------------------------------
(* Re-rendering *)

PrevDays == IF "logs" \in DOMAIN prev.props THEN prev.props.logs ELSE <<>>

(* C12: rendering is idempotent.  When a sheet that has drawn a DailyLog *)
(* is given an identical DailyLog and its effect runs again on the same  *)
(* canvas, the second run leaves the same sequence of primitives, with   *)
(* the same coordinates, texts and styles, and the same context state,   *)
(* as the first.                                                         *)
C12_Idempotent ==
  \A i \in 1..Len(canvas) :
    (/\ prev.any
     /\ Completed(i)
     /\ i <= Len(prev.canvas)
     /\ i <= Len(PrevDays)
     /\ PrevDays[i] = Days[i]) =>
      /\ Calls(i) = prev.canvas[i].calls
      /\ canvas[i] = prev.canvas[i]

(* a sheet with two bars has been drawn twice from the same DailyLog *)
C12_Witness ==
  /\ prev.any
  /\ phase = "done"
  /\ ~crashed
  /\ prev.props = props
  /\ Len(canvas) = 1
  /\ Completed(1)
  /\ Len(Bars(1)) = 2
  /\ Len(SelectSeq(prev.canvas[1].calls, IsFillRect)) = 2

(* C15: a re-render with a new DailyLog supersedes the previous output.  *)
(* After any sequence of logs given to mounted sheets, a sheet whose     *)
(* effect has run shows exactly what drawing its current DailyLog on a   *)
(* new canvas gives, nothing of an earlier DailyLog; and once the        *)
(* re-render has settled, every sheet has been redrawn and there is one  *)
(* sheet per current DailyLog.                                           *)
C15_Superseded ==
  prev.any =>
    /\ \A i \in 1..Len(canvas) :
         EffectRan(i) =>
           Calls(i) = LogSheetEffect(NewContext, Days[i]).calls
    /\ (phase = "done" /\ ~crashed) =>
         /\ Len(canvas) = Len(Days)
         /\ \A i \in 1..Len(canvas) : Completed(i)

(* a sheet that showed two bars has been redrawn from a DailyLog without *)
(* activities and shows no bar                                           *)
C15_Witness ==
  /\ prev.any
  /\ phase = "done"
  /\ ~crashed
  /\ Len(canvas) = 1
  /\ Len(prev.canvas) = 1
  /\ Len(SelectSeq(prev.canvas[1].calls, IsFillRect)) = 2
  /\ ActsOf(1) = <<>>
  /\ Bars(1) = <<>>
  /\ Calls(1) # <<>>

-----------------------------------------------------------------------------
(* handleTripSubmit *)

Settles == Len(inflight') < Len(inflight)

C18_State ==
  /\ loading <=> inflight # <<>>
  /\ Len(inflight) <= 1
  /\ loading => error = null
  /\ ~loading => (error # null <=> outcome = "failed")
  /\ tripData = null <=> tripLocations = null
  /\ outcome = "none" => tripData = null

C18_Step ==
  /\ Len(inflight') > Len(inflight) =>
       /\ loading'
       /\ error' = null
       /\ UNCHANGED <<tripData, tripLocations, props, dom, canvas>>
  /\ (Settles /\ outcome' = "failed") =>
       /\ ~loading'
       /\ error' # null
       /\ UNCHANGED <<tripData, tripLocations, props, dom, canvas>>
  /\ (Settles /\ outcome' = "ok") =>
       /\ ~loading'
       /\ error' = null
       /\ tripData' \in Payloads
       /\ tripLocations' # null
       /\ tripLocations'.current = inflight[1].formData.current_location
       /\ tripLocations'.pickup = inflight[1].formData.pickup_location
       /\ tripLocations'.dropoff = inflight[1].formData.dropoff_location
  /\ (tripData' # tripData \/ tripLocations' # tripLocations) =>
       (Settles /\ outcome' = "ok")
  /\ Settles => outcome' \in {"ok", "failed"}

(* C18: over any sequence of submissions, loading is true exactly while a *)
(* submission has not settled, whether it ends with data, with a non-ok   *)
(* response or with a thrown error; error is null from the start of a     *)
(* submission and is set exactly when the submission fails; tripData and  *)
(* tripLocations change only together, on success, and a failed           *)
(* submission leaves them, and the log sheets drawn from them, as they    *)
(* were.                                                                  *)
C18_SubmitLifecycle == [](C18_State) /\ [][C18_Step]_vars

(* a submission has failed after an earlier one succeeded: the error is *)
(* set and the drawn sheet of the earlier trip is still there           *)
C18_Witness ==
  /\ outcome = "failed"
  /\ ~loading
  /\ error = Str("Failed to calculate trip")
  /\ tripData # null
  /\ tripLocations # null
  /\ ~crashed
  /\ Len(canvas) = 1
  /\ Completed(1)
  /\ Len(Bars(1)) = 2

====
